---- MODULE Spec2Model ----
(***************************************************************************)
(* A model of generate_ics.py: the line scan of build_events (date cursor, *)
(* time markers, title and description windows), the deduplication by      *)
(* (day, canonicalized activity text), the identifier assignment and the   *)
(* final sort.                                                             *)
(*                                                                         *)
(* A Python str is a sequence of one-character strings.  The regular       *)
(* expressions of the source all begin and end with \b, so each one        *)
(* matches whole maximal runs of word characters; Runs splits a string     *)
(* into those runs and the single non-word characters between them.        *)
(***************************************************************************)
EXTENDS Integers, Sequences, FiniteSets, TLC

----------------------------------------------------------------------------
(* Characters *)

Digits == <<"0", "1", "2", "3", "4", "5", "6", "7", "8", "9">>

LowerLetters ==
  <<"a", "b", "c", "d", "e", "f", "g", "h", "i", "j", "k", "l", "m", "n",
    "o", "p", "q", "r", "s", "t", "u", "v", "w", "x", "y", "z", "å", "ä", "ö">>

UpperLetters ==
  <<"A", "B", "C", "D", "E", "F", "G", "H", "I", "J", "K", "L", "M", "N",
    "O", "P", "Q", "R", "S", "T", "U", "V", "W", "X", "Y", "Z", "Å", "Ä", "Ö">>

Range(f) == {f[k] : k \in DOMAIN f}

DigitSet == Range(Digits)

\* \w of the re module: letters, digits and the underscore
WordChars == DigitSet \cup Range(LowerLetters) \cup Range(UpperLetters) \cup {"_"}

IsWordChar(c) == c \in WordChars

\* \s of the re module, over the characters a normalized line can hold
IsSpace(c) == c = " "

DigitValue == [c \in DigitSet |-> (CHOOSE k \in 1..10 : Digits[k] = c) - 1]

LowerMap ==
  [c \in Range(UpperLetters) |->
     LowerLetters[CHOOSE k \in 1..Len(UpperLetters) : UpperLetters[k] = c]]

\* str.lower()
Lower(s) == [k \in 1..Len(s) |-> IF s[k] \in DOMAIN LowerMap THEN LowerMap[s[k]] ELSE s[k]]

----------------------------------------------------------------------------
(* Runs of word characters *)

\* The maximal runs of word characters of s, and between them each non-word
\* character as a run of its own.
RECURSIVE RunsFrom(_, _)
RunsFrom(s, acc) ==
  IF s = <<>> THEN acc
  ELSE LET c == Head(s)
           n == Len(acc)
       IN IF IsWordChar(c) /\ n > 0 /\ IsWordChar(acc[n][1])
          THEN RunsFrom(Tail(s), [acc EXCEPT ![n] = Append(@, c)])
          ELSE RunsFrom(Tail(s), Append(acc, <<c>>))

Runs(s) == RunsFrom(s, <<>>)

RECURSIVE Flatten(_)
Flatten(ts) == IF ts = <<>> THEN <<>> ELSE Head(ts) \o Flatten(Tail(ts))

\* \b\d{lo,hi}\b : the run is lo to hi digits and nothing else
IsDigitRun(t, lo, hi) ==
  /\ Len(t) >= lo
  /\ Len(t) <= hi
  /\ \A k \in 1..Len(t) : t[k] \in DigitSet

\* int() of a run of digits
RECURSIVE ToInt(_)
ToInt(t) == IF t = <<>> THEN 0 ELSE 10 * ToInt(SubSeq(t, 1, Len(t) - 1)) + DigitValue[t[Len(t)]]

----------------------------------------------------------------------------
(* The patterns *)

MONTHS ==
  { <<<<"j", "a", "n">>, 1>>,
    <<<<"j", "a", "n", "u", "a", "r", "i">>, 1>>,
    <<<<"f", "e", "b">>, 2>>,
    <<<<"f", "e", "b", "r", "u", "a", "r", "i">>, 2>>,
    <<<<"m", "a", "r">>, 3>>,
    <<<<"m", "a", "r", "s">>, 3>>,
    <<<<"a", "p", "r">>, 4>>,
    <<<<"a", "p", "r", "i", "l">>, 4>>,
    <<<<"m", "a", "j">>, 5>>,
    <<<<"j", "u", "n">>, 6>>,
    <<<<"j", "u", "n", "i">>, 6>>,
    <<<<"j", "u", "l">>, 7>>,
    <<<<"j", "u", "l", "i">>, 7>>,
    <<<<"a", "u", "g">>, 8>>,
    <<<<"a", "u", "g", "u", "s", "t", "i">>, 8>>,
    <<<<"s", "e", "p">>, 9>>,
    <<<<"s", "e", "p", "t", "e", "m", "b", "e", "r">>, 9>>,
    <<<<"o", "k", "t">>, 10>>,
    <<<<"o", "k", "t", "o", "b", "e", "r">>, 10>>,
    <<<<"n", "o", "v">>, 11>>,
    <<<<"n", "o", "v", "e", "m", "b", "e", "r">>, 11>>,
    <<<<"d", "e", "c">>, 12>>,
    <<<<"d", "e", "c", "e", "m", "b", "e", "r">>, 12>> }

\* MONTHS.get(name): 0 stands for None
MonthsGet(name) ==
  IF \E p \in MONTHS : p[1] = name
  THEN (CHOOSE p \in MONTHS : p[1] = name)[2]
  ELSE 0

\* The alternatives jan(?:uari)?|feb(?:ruari)?|...|dec(?:ember)? of DATE_RE and
\* of canonicalize_activity_text; both are compiled with re.IGNORECASE.
MonthAlternatives ==
  { <<"j", "a", "n">>, <<"j", "a", "n", "u", "a", "r", "i">>,
    <<"f", "e", "b">>, <<"f", "e", "b", "r", "u", "a", "r", "i">>,
    <<"m", "a", "r">>, <<"m", "a", "r", "s">>,
    <<"a", "p", "r">>, <<"a", "p", "r", "i", "l">>,
    <<"m", "a", "j">>,
    <<"j", "u", "n">>, <<"j", "u", "n", "i">>,
    <<"j", "u", "l">>, <<"j", "u", "l", "i">>,
    <<"a", "u", "g">>, <<"a", "u", "g", "u", "s", "t", "i">>,
    <<"s", "e", "p">>, <<"s", "e", "p", "t", "e", "m", "b", "e", "r">>,
    <<"o", "k", "t">>, <<"o", "k", "t", "o", "b", "e", "r">>,
    <<"n", "o", "v">>, <<"n", "o", "v", "e", "m", "b", "e", "r">>,
    <<"d", "e", "c">>, <<"d", "e", "c", "e", "m", "b", "e", "r">> }

IsMonthRun(t) == Lower(t) \in MonthAlternatives

\* (måndag|tisdag|onsdag|torsdag|fredag|lördag|söndag), matched case-sensitively
WEEKDAYS ==
  { <<"m", "å", "n", "d", "a", "g">>,
    <<"t", "i", "s", "d", "a", "g">>,
    <<"o", "n", "s", "d", "a", "g">>,
    <<"t", "o", "r", "s", "d", "a", "g">>,
    <<"f", "r", "e", "d", "a", "g">>,
    <<"l", "ö", "r", "d", "a", "g">>,
    <<"s", "ö", "n", "d", "a", "g">> }

IsWeekdayRun(t) == t \in WEEKDAYS

\* \b(\d{1,2})[:.](\d{2})\b matched at the head of the runs ts
TimeAt(ts) ==
  /\ Len(ts) >= 3
  /\ IsDigitRun(ts[1], 1, 2)
  /\ ts[2] \in {<<":">>, <<".">>}
  /\ IsDigitRun(ts[3], 2, 2)

\* The index after the white space that starts at index k of ts
RECURSIVE SkipSpace(_, _)
SkipSpace(ts, k) ==
  IF k <= Len(ts) /\ Len(ts[k]) = 1 /\ IsSpace(ts[k][1]) THEN SkipSpace(ts, k + 1) ELSE k

\* \b(\d{1,2})\s+(month)\b matched at the head of the runs ts: the index of the
\* month run, or 0 when there is no match here
DateAt(ts) ==
  IF Len(ts) >= 3 /\ IsDigitRun(ts[1], 1, 2)
  THEN LET m == SkipSpace(ts, 2)
       IN IF m > 2 /\ m <= Len(ts) /\ IsMonthRun(ts[m]) THEN m ELSE 0
  ELSE 0

----------------------------------------------------------------------------
(* canonicalize_activity_text and normalize_whitespace *)

Blank == <<" ">>

\* re.sub(r"\b\d{1,2}[:.]\d{2}\b", " ", s) over the runs of s
RECURSIVE SubTimeRuns(_)
SubTimeRuns(ts) ==
  IF ts = <<>> THEN <<>>
  ELSE IF TimeAt(ts) THEN <<Blank>> \o SubTimeRuns(SubSeq(ts, 4, Len(ts)))
  ELSE <<Head(ts)>> \o SubTimeRuns(Tail(ts))

SubTimes(s) == Flatten(SubTimeRuns(Runs(s)))

SubWeekdays(s) ==
  LET ts == Runs(s)
  IN Flatten([k \in 1..Len(ts) |-> IF IsWeekdayRun(ts[k]) THEN Blank ELSE ts[k]])

SubDayNumbers(s) ==
  LET ts == Runs(s)
  IN Flatten([k \in 1..Len(ts) |-> IF IsDigitRun(ts[k], 1, 2) THEN Blank ELSE ts[k]])

SubMonths(s) ==
  LET ts == Runs(s)
  IN Flatten([k \in 1..Len(ts) |-> IF IsMonthRun(ts[k]) THEN Blank ELSE ts[k]])

\* s.replace("|", " ")
ReplaceBar(s) == [k \in 1..Len(s) |-> IF s[k] = "|" THEN " " ELSE s[k]]

\* re.sub(r"\s+", " ", s)
RECURSIVE CollapseSpace(_)
CollapseSpace(s) ==
  IF Len(s) < 2 THEN s
  ELSE IF IsSpace(s[1]) /\ IsSpace(s[2]) THEN CollapseSpace(Tail(s))
  ELSE <<s[1]>> \o CollapseSpace(Tail(s))

\* str.strip()
RECURSIVE Strip(_)
Strip(s) ==
  IF s = <<>> THEN s
  ELSE IF IsSpace(s[1]) THEN Strip(Tail(s))
  ELSE IF IsSpace(s[Len(s)]) THEN Strip(SubSeq(s, 1, Len(s) - 1))
  ELSE s

normalize_whitespace(s) == Strip(CollapseSpace(s))

\* A slip in the order of the steps: the text is lower-cased after the patterns
\* have run, so a capitalised weekday survives the first application.
canonicalize_lower_last(s) ==
  normalize_whitespace(Lower(ReplaceBar(SubMonths(SubDayNumbers(SubWeekdays(SubTimes(s)))))))

canonicalize_activity_text(s) ==
  normalize_whitespace(ReplaceBar(SubMonths(SubDayNumbers(SubWeekdays(SubTimes(Lower(s)))))))

----------------------------------------------------------------------------
(* datetime *)

IsLeap(y) == y % 4 = 0 /\ (y % 100 # 0 \/ y % 400 = 0)

DaysInMonth(y, m) ==
  IF m = 2 THEN (IF IsLeap(y) THEN 29 ELSE 28)
  ELSE IF m \in {4, 6, 9, 11} THEN 30 ELSE 31

\* A datetime in the zone TZ: its wall-clock fields
DateTime(y, m, d, hh, mm) == [year |-> y, month |-> m, day |-> d, hour |-> hh, minute |-> mm]

\* The day after the date of dt
NextDay(dt) ==
  IF dt.day < DaysInMonth(dt.year, dt.month) THEN [dt EXCEPT !.day = @ + 1]
  ELSE IF dt.month < 12 THEN [dt EXCEPT !.day = 1, !.month = @ + 1]
  ELSE [dt EXCEPT !.day = 1, !.month = 1, !.year = @ + 1]

RECURSIVE AddDays(_, _)
AddDays(dt, n) == IF n = 0 THEN dt ELSE AddDays(NextDay(dt), n - 1)

\* A slip in the carry: the minutes wrap around midnight and the date stays.
AddMinutesNoCarry(dt, n) ==
  LET total == dt.hour * 60 + dt.minute + n
  IN [dt EXCEPT !.hour = (total \div 60) % 24, !.minute = total % 60]

\* dt + timedelta(minutes=n), n >= 0: wall-clock arithmetic within one tzinfo
AddMinutes(dt, n) ==
  LET total == dt.hour * 60 + dt.minute + n
  IN AddDays([dt EXCEPT !.hour = (total % 1440) \div 60, !.minute = total % 60],
             total \div 1440)

\* a < b for two datetimes of the same tzinfo
DtLess(a, b) ==
  \/ a.year < b.year
  \/ a.year = b.year /\ a.month < b.month
  \/ a.year = b.year /\ a.month = b.month /\ a.day < b.day
  \/ a.year = b.year /\ a.month = b.month /\ a.day = b.day /\ a.hour < b.hour
  \/ a.year = b.year /\ a.month = b.month /\ a.day = b.day /\ a.hour = b.hour
       /\ a.minute < b.minute

\* date.toordinal(): day 1 is 0001-01-01
RECURSIVE DaysBeforeMonth(_, _)
DaysBeforeMonth(y, m) == IF m = 1 THEN 0 ELSE DaysBeforeMonth(y, m - 1) + DaysInMonth(y, m - 1)

Ordinal(y, m, d) ==
  365 * (y - 1) + (y - 1) \div 4 - (y - 1) \div 100 + (y - 1) \div 400
    + DaysBeforeMonth(y, m) + d

\* The last Sunday of a 31-day month (date.weekday() is (ordinal + 6) % 7)
LastSunday(y, m) == 31 - (Ordinal(y, m, 31) % 7)

\* utcoffset() in hours of a wall-clock time of Europe/Stockholm with fold = 0:
\* summer time from the last Sunday of March 03:00 to the last Sunday of
\* October 03:00
UtcOffsetHours(dt) ==
  LET after(m, d, h) ==
        \/ dt.month > m
        \/ dt.month = m /\ dt.day > d
        \/ dt.month = m /\ dt.day = d /\ dt.hour >= h
  IN IF after(3, LastSunday(dt.year, 3), 3) /\ ~after(10, LastSunday(dt.year, 10), 3)
     THEN 2 ELSE 1

\* The decimal digits of n, zero-padded to width w
RECURSIVE Pad(_, _)
Pad(n, w) == IF w = 0 THEN <<>> ELSE Append(Pad(n \div 10, w - 1), Digits[(n % 10) + 1])

\* strftime("%Y-%m-%d")
DayKey(dt) == Pad(dt.year, 4) \o <<"-">> \o Pad(dt.month, 2) \o <<"-">> \o Pad(dt.day, 2)

\* isoformat() of an aware datetime with zero seconds
IsoFormat(dt) ==
  DayKey(dt) \o <<"T">> \o Pad(dt.hour, 2) \o <<":">> \o Pad(dt.minute, 2)
    \o <<":", "0", "0", "+">> \o Pad(UtcOffsetHours(dt), 2) \o <<":", "0", "0">>

----------------------------------------------------------------------------
(* parse_date_from_line and parse_time_from_line *)

\* re.search: the least index of ts at which At(...) matches, or 0
RECURSIVE FirstTime(_, _)
FirstTime(ts, k) ==
  IF k > Len(ts) THEN 0
  ELSE IF TimeAt(SubSeq(ts, k, Len(ts))) THEN k
  ELSE FirstTime(ts, k + 1)

RECURSIVE FirstDate(_, _)
FirstDate(ts, k) ==
  IF k > Len(ts) THEN 0
  ELSE IF DateAt(SubSeq(ts, k, Len(ts))) # 0 THEN k
  ELSE FirstDate(ts, k + 1)

NoDateTime == DateTime(0, 0, 0, 0, 0)

\* The result of parse_date_from_line: None, a datetime, or the ValueError that
\* the datetime constructor raises for a day the month does not have.
parse_date_from_line(line, default_year) ==
  LET ts == Runs(line)
      k  == FirstDate(ts, 1)
  IN IF k = 0 THEN [kind |-> "None", dt |-> NoDateTime]
     ELSE LET rest       == SubSeq(ts, k, Len(ts))
              day        == ToInt(rest[1])
              month_name == Lower(rest[DateAt(rest)])
              month_key  == SubSeq(month_name, 1, 3)
              month      == IF MonthsGet(month_key) # 0 THEN MonthsGet(month_key)
                            ELSE MonthsGet(month_name)
          IN IF month = 0 THEN [kind |-> "None", dt |-> NoDateTime]
             ELSE IF day < 1 \/ day > DaysInMonth(default_year, month)
             THEN [kind |-> "ValueError", dt |-> NoDateTime]
             ELSE [kind |-> "datetime", dt |-> DateTime(default_year, month, day, 0, 0)]

\* The result of parse_time_from_line: <<>> for None, else <<hh, mm>>
parse_time_from_line(line) ==
  LET ts == Runs(line)
      k  == FirstTime(ts, 1)
  IN IF k = 0 THEN <<>>
     ELSE LET hh == ToInt(ts[k])
              mm == ToInt(ts[k + 2])
          IN IF 0 <= hh /\ hh <= 23 /\ 0 <= mm /\ mm <= 59 THEN <<hh, mm>> ELSE <<>>

----------------------------------------------------------------------------
(* The pieces of build_events *)

BaseYear == 2026

\* year_guess = 2026 if now.year <= 2026 else now.year
year_guess(now_year) == IF now_year <= BaseYear THEN BaseYear ELSE now_year

TitleLimit == 6

\* A slip in the comparison: a line of exactly six characters stands alone.
TitleStrict(lines, i) ==
  normalize_whitespace(
    IF Len(lines[i + 1]) < TitleLimit /\ i + 1 < Len(lines)
    THEN lines[i + 1] \o <<" ">> \o lines[i + 2]
    ELSE lines[i + 1])

\* The title of the candidate of line i (i counts from 0, as enumerate does)
Title(lines, i) ==
  normalize_whitespace(
    IF Len(lines[i + 1]) <= TitleLimit /\ i + 1 < Len(lines)
    THEN lines[i + 1] \o <<" ">> \o lines[i + 2]
    ELSE lines[i + 1])

Max(a, b) == IF a >= b THEN a ELSE b
Min(a, b) == IF a <= b THEN a ELSE b

\* " | ".join(window)
RECURSIVE Join(_)
Join(ws) ==
  IF ws = <<>> THEN <<>>
  ELSE IF Len(ws) = 1 THEN ws[1]
  ELSE ws[1] \o <<" ", "|", " ">> \o Join(Tail(ws))

\* The lines j of range(max(0, i - 2), min(len(lines), i + 4))
Window(lines, i) == SubSeq(lines, Max(0, i - 2) + 1, Min(Len(lines), i + 4))

Description(lines, i) == normalize_whitespace(Join(Window(lines, i)))

EventMinutes == 60

\* Event() carries a random uid until build_events sets it; -1 stands for it.
\* origin is not a field of the program's Event: it records the index of the
\* line that produced the candidate.
NewEvent(lines, i, start) ==
  [ name        |-> Title(lines, i),
    begin       |-> start,
    end         |-> AddMinutes(start, EventMinutes),
    description |-> Description(lines, i),
    uid         |-> -1,
    origin      |-> i ]

\* A slip in the scan: the first date heading sticks.
CursorKeepFirst(current_date, dt) == IF current_date = <<>> THEN <<dt>> ELSE current_date

\* current_date = dt
CursorAfter(current_date, dt) == <<dt>>

\* key = (day_key, activity_key)
KeyOf(e) ==
  << DayKey(e.begin),
     canonicalize_activity_text(e.name \o <<" ">> \o e.description) >>

\* A slip in the comparison: a candidate with an equal start replaces the kept one.
ReplacesOnTie(e, existing) == ~DtLess(existing.begin, e.begin)

\* e.begin < existing.begin
Replaces(e, existing) == DtLess(e.begin, existing.begin)

\* The index of key in the dict chosen (a sequence, in insertion order), or 0
IndexOfKey(chosen, key) ==
  IF \E k \in 1..Len(chosen) : chosen[k].key = key
  THEN CHOOSE k \in 1..Len(chosen) : chosen[k].key = key
  ELSE 0

\* One pass of the loop "for e in provisional" over the dict chosen
ChosenAfter(chosen, e) ==
  LET key == KeyOf(e)
      k   == IndexOfKey(chosen, key)
  IN IF k = 0 THEN Append(chosen, [key |-> key, e |-> e])
     ELSE IF Replaces(e, chosen[k].e) THEN [chosen EXCEPT ![k].e = e]
     ELSE chosen

\* The characters the model's strings are made of, for the hash
HashChars ==
  Digits \o LowerLetters \o UpperLetters \o <<" ", "|", ":", ".", "-", "+", "_">>

CharCode == [c \in Range(HashChars) |-> CHOOSE k \in 1..Len(HashChars) : HashChars[k] = c]

\* CPython keeps 64 bits of the hash; the model keeps 16.
HashModulus == 2 ^ 16

\* hash(s) of a str under the process's hash seed (PYTHONHASHSEED, random by
\* default): a keyed digest of the characters of s
RECURSIVE Hash(_, _)
Hash(seed, s) ==
  IF s = <<>> THEN seed % HashModulus
  ELSE (Hash(seed, SubSeq(s, 1, Len(s) - 1)) * 31 + CharCode[s[Len(s)]]) % HashModulus

\* uid_key = f"{e.begin.astimezone(TZ).isoformat()}|{canonicalize_activity_text(e.name)}"
UidKey(e) == IsoFormat(e.begin) \o <<"|">> \o canonicalize_activity_text(e.name)

\* The uid without its constant suffix "@os-sverige-kalender"
Uid(seed, e) == Hash(seed, UidKey(e))

\* A slip: the list is returned in the order of the dict.
Unsorted(es) == es

\* list.sort(key=lambda x: x.begin): stable, ascending
RECURSIVE InsertByBegin(_, _)
InsertByBegin(sorted, e) ==
  IF sorted = <<>> THEN <<e>>
  ELSE IF DtLess(e.begin, sorted[Len(sorted)].begin)
  THEN Append(InsertByBegin(SubSeq(sorted, 1, Len(sorted) - 1), e), sorted[Len(sorted)])
  ELSE Append(sorted, e)

RECURSIVE SortByBeginFrom(_, _)
SortByBeginFrom(es, acc) ==
  IF es = <<>> THEN acc ELSE SortByBeginFrom(Tail(es), InsertByBegin(acc, Head(es)))

SortByBegin(es) == SortByBeginFrom(es, <<>>)

----------------------------------------------------------------------------
(* Inputs *)

\* The longest line sequence the scan is given
MaxLines == 4

\* Normalized, non-empty lines, as extract_lines produces them: a date heading,
\* a date heading with a label and an upper-case month, a day its month does
\* not have, two time lines of seven characters, a time line of six characters
\* with the other separator, and a line whose hour is out of range.
LineVocabulary ==
  { <<"5", " ", "f", "e", "b">>,
    <<"3", "1", " ", "D", "E", "C", " ", "b">>,
    <<"3", "1", " ", "f", "e", "b">>,
    <<"2", "3", ":", "3", "0", " ", "a">>,
    <<"1", "0", ":", "0", "0", " ", "a">>,
    <<"9", ".", "0", "5", " ", "a">>,
    <<"2", "4", ":", "0", "0", " ", "a">> }

LineSeqs == UNION {[1..n -> LineVocabulary] : n \in 0..MaxLines}

\* datetime.now(TZ).year of a run
NowYears == {2026, 2027}

\* The hash seed of a run of the interpreter
Seeds == {0, 1}

\* The texts canonicalize_activity_text is applied to: at most MaxTokens pieces
\* joined without a separator
MaxTokens == 5

TokenVocabulary ==
  { <<"3", "0">>, <<":">>, <<".">>, <<"|">>, <<" ">>,
    <<"m", "a", "j">>, <<"F", "r", "e", "d", "a", "g">>, <<"x">> }

Texts == {Flatten(ts) : ts \in UNION {[1..n -> TokenVocabulary] : n \in 0..MaxTokens}}

----------------------------------------------------------------------------
(* State *)

VARIABLES
  lines,          \* the argument of build_events
  now_year,       \* datetime.now(TZ).year of this run
  pc,             \* the position in build_events
  i,              \* the index of the scan loop
  current_date,   \* <<>> for None, else <<datetime>>
  provisional,    \* the candidates, in the order of their construction
  j,              \* the number of candidates the dedup loop has taken
  chosen,         \* the dict of the dedup loop, in insertion order
  final_events,   \* the list build_events returns
  run,            \* the number of this run of the program
  previous,       \* the list the run before this one returned
  text,           \* the argument of canonicalize_activity_text
  results         \* its successive canonicalizations

vars ==
  << lines, now_year, pc, i, current_date, provisional, j, chosen, final_events,
     run, previous, text, results >>

canonVars == << text, results >>

Init ==
  /\ lines \in LineSeqs
  /\ now_year \in NowYears
  /\ pc = "scan"
  /\ i = 0
  /\ current_date = <<>>
  /\ provisional = <<>>
  /\ j = 0
  /\ chosen = <<>>
  /\ final_events = <<>>
  /\ run = 1
  /\ previous = <<>>
  /\ text = <<>>
  /\ results = <<>>

----------------------------------------------------------------------------
(* build_events *)

\* One pass of "for i, line in enumerate(lines)"
ScanLine ==
  /\ pc = "scan"
  /\ i < Len(lines)
  /\ LET line == lines[i + 1]
         r    == parse_date_from_line(line, year_guess(now_year))
         t    == parse_time_from_line(line)
     IN IF r.kind = "ValueError"
        THEN /\ pc' = "raised"
             /\ UNCHANGED << i, current_date, provisional >>
        ELSE IF r.kind = "datetime"
        THEN /\ current_date' = CursorAfter(current_date, r.dt)
             /\ i' = i + 1
             /\ UNCHANGED << pc, provisional >>
        ELSE IF t = <<>> \/ current_date = <<>>
        THEN /\ i' = i + 1
             /\ UNCHANGED << pc, current_date, provisional >>
        ELSE LET start == [current_date[1] EXCEPT !.hour = t[1], !.minute = t[2]]
             IN /\ provisional' = Append(provisional, NewEvent(lines, i, start))
                /\ i' = i + 1
                /\ UNCHANGED << pc, current_date >>
  /\ UNCHANGED << lines, now_year, j, chosen, final_events, run, previous, canonVars >>

\* The scan loop ends and the dedup loop begins
EndScan ==
  /\ pc = "scan"
  /\ i = Len(lines)
  /\ pc' = "dedup"
  /\ UNCHANGED << lines, now_year, i, current_date, provisional, j, chosen,
                  final_events, run, previous, canonVars >>

\* One pass of "for e in provisional"
DedupStep ==
  /\ pc = "dedup"
  /\ j < Len(provisional)
  /\ chosen' = ChosenAfter(chosen, provisional[j + 1])
  /\ j' = j + 1
  /\ UNCHANGED << lines, now_year, pc, i, current_date, provisional, final_events,
                  run, previous, canonVars >>

\* final_events = list(chosen.values()), and the loop that sets every uid
AssignUids ==
  /\ pc = "dedup"
  /\ j = Len(provisional)
  /\ \E seed \in Seeds :
       final_events' = [k \in 1..Len(chosen) |->
                          [chosen[k].e EXCEPT !.uid = Uid(seed, chosen[k].e)]]
  /\ pc' = "sort"
  /\ UNCHANGED << lines, now_year, i, current_date, provisional, j, chosen,
                  run, previous, canonVars >>

\* final_events.sort(key=lambda x: x.begin); return final_events
SortFinal ==
  /\ pc = "sort"
  /\ final_events' = SortByBegin(final_events)
  /\ pc' = "done"
  /\ UNCHANGED << lines, now_year, i, current_date, provisional, j, chosen,
                  run, previous, canonVars >>

Next == ScanLine \/ EndScan \/ DedupStep \/ AssignUids \/ SortFinal

Spec == Init /\ [][Next]_vars

----------------------------------------------------------------------------
(* A second run of the program on the same lines, in the same year *)

Runs2 == {1, 2}

Rerun ==
  /\ pc = "done"
  /\ run + 1 \in Runs2
  /\ previous' = final_events
  /\ run' = run + 1
  /\ pc' = "scan"
  /\ i' = 0
  /\ current_date' = <<>>
  /\ provisional' = <<>>
  /\ j' = 0
  /\ chosen' = <<>>
  /\ final_events' = <<>>
  /\ UNCHANGED << lines, now_year, canonVars >>

NextRuns == Next \/ Rerun

SpecRuns == Init /\ [][NextRuns]_vars

----------------------------------------------------------------------------
(* canonicalize_activity_text applied, and applied again *)

InitCanon ==
  /\ text \in Texts
  /\ results = <<>>
  /\ lines = <<>>
  /\ now_year = BaseYear
  /\ pc = "canon"
  /\ i = 0
  /\ current_date = <<>>
  /\ provisional = <<>>
  /\ j = 0
  /\ chosen = <<>>
  /\ final_events = <<>>
  /\ run = 1
  /\ previous = <<>>

Canonicalize ==
  /\ pc = "canon"
  /\ Len(results) < 2
  /\ results' = Append(results,
                       canonicalize_activity_text(IF results = <<>> THEN text
                                                  ELSE results[Len(results)]))
  /\ UNCHANGED << lines, now_year, pc, i, current_date, provisional, j, chosen,
                  final_events, run, previous, text >>

NextCanon == Canonicalize

SpecCanon == InitCanon /\ [][NextCanon]_vars

----------------------------------------------------------------------------
(* Properties *)

Indices(seq) == 1..Len(seq)

\* The candidates and the result, at any point of a run
Events == {provisional[k] : k \in Indices(provisional)}
            \cup {final_events[k] : k \in Indices(final_events)}

\* (datetime - datetime.min) in minutes
MinutesOf(dt) == (Ordinal(dt.year, dt.month, dt.day) - 1) * 1440 + dt.hour * 60 + dt.minute

SameDate(a, b) == a.year = b.year /\ a.month = b.month /\ a.day = b.day

\* The indices (from 0) of the lines before line n that are date headings
DateLinesBefore(n) ==
  {k \in 0..(n - 1) :
     parse_date_from_line(lines[k + 1], year_guess(now_year)).kind = "datetime"}

\* The candidates of a key, by their index in provisional
Group(key) == {k \in Indices(provisional) : KeyOf(provisional[k]) = key}

\* C1: the result holds exactly one event per distinct key (day, canonicalized
\* title and description), and it is the candidate of the group with the least
\* start, the first produced among those that share it.
C1_OnePerKeyEarliestFirst ==
  pc = "done" =>
    LET keyAt == [k \in Indices(provisional) |-> KeyOf(provisional[k])]
        keys  == Range(keyAt)
        group(key) == {k \in Indices(provisional) : keyAt[k] = key}
        firstEarliest(key) ==
          CHOOSE k \in group(key) :
            \A m \in group(key) :
              /\ ~DtLess(provisional[m].begin, provisional[k].begin)
              /\ provisional[m].begin = provisional[k].begin => k <= m
    IN /\ Len(final_events) = Cardinality(keys)
       /\ {[final_events[n] EXCEPT !.uid = -1] : n \in Indices(final_events)}
            = {provisional[firstEarliest(key)] : key \in keys}

\* A run in which a later candidate with an earlier start replaced the kept one,
\* and in which two candidates of one group share the least start
C1_Witness ==
  /\ pc = "done"
  /\ \E n \in Indices(final_events) :
       /\ \E k \in Group(KeyOf(final_events[n])) :
            /\ provisional[k].origin < final_events[n].origin
            /\ DtLess(final_events[n].begin, provisional[k].begin)
       /\ \E k \in Group(KeyOf(final_events[n])) :
            /\ provisional[k].origin > final_events[n].origin
            /\ provisional[k].begin = final_events[n].begin

\* C2: no exception escapes build_events: a line that cannot be used is skipped.
C2_NoExceptionEscapes == pc # "raised"

\* C3: two runs of the program on the same lines return identical lists, the
\* identifiers included.
C3_RunsAgree == (pc = "done" /\ run = 2) => final_events = previous

\* C4: every event comes from a line with a date heading before it, and the
\* date of its start is the date of the latest date heading before that line.
C4_DateOfLatestHeading ==
  \A e \in Events :
    LET D == DateLinesBefore(e.origin)
    IN /\ D # {}
       /\ LET k == CHOOSE m \in D : \A n \in D : n <= m
          IN SameDate(e.begin,
                      parse_date_from_line(lines[k + 1], year_guess(now_year)).dt)

\* A finished run with an event under the second of two different date headings
C4_Witness ==
  /\ pc = "done"
  /\ \E n \in Indices(final_events) :
       \E k1, k2 \in DateLinesBefore(final_events[n].origin) :
         /\ k1 < k2
         /\ ~SameDate(parse_date_from_line(lines[k1 + 1], year_guess(now_year)).dt,
                      parse_date_from_line(lines[k2 + 1], year_guess(now_year)).dt)
  /\ parse_time_from_line(lines[1]) # <<>>

\* Relevance marker sets that can be configured (each marker a string)
RelevanceMarkerSets ==
  { {<<"S", "v", "e", "r", "i", "g", "e">>},
    {<<"S", "v", "e", "r", "i", "g", "e">>, <<"S", "W", "E">>} }

\* sub in s
Contains(s, sub) ==
  \E k \in 0..(Len(s) - Len(sub)) : SubSeq(s, k + 1, k + Len(sub)) = sub

\* C5: with a non-empty set of relevance markers configured, every event of the
\* result has a description window that contains one of the markers, case
\* ignored.
C5_MarkersFilter ==
  pc = "done" =>
    \A markers \in RelevanceMarkerSets :
      \A n \in Indices(final_events) :
        \E m \in markers : Contains(Lower(final_events[n].description), Lower(m))

\* C6: every event ends exactly 60 minutes after it starts.
C6_EndIsStartPlusSixty ==
  \A e \in Events : MinutesOf(e.end) = MinutesOf(e.begin) + 60

\* A returned event that starts in the last hour of the last day of a year
C6_Witness ==
  /\ pc = "done"
  /\ \E n \in Indices(final_events) :
       /\ final_events[n].begin.hour = 23
       /\ final_events[n].end.year = final_events[n].begin.year + 1

\* C7: the returned list is sorted, non-decreasing, by start.
C7_SortedByStart ==
  pc = "done" =>
    \A n \in 1..(Len(final_events) - 1) :
      ~DtLess(final_events[n + 1].begin, final_events[n].begin)

\* A finished run whose dict held, out of order, an entry that the dedup loop
\* had replaced by a later candidate
C7_Witness ==
  /\ pc = "done"
  /\ \E k \in 1..(Len(chosen) - 1) :
       /\ DtLess(chosen[k + 1].e.begin, chosen[k].e.begin)
       /\ \E m \in Group(chosen[k].key) : provisional[m].origin < chosen[k].e.origin

\* C8: canonicalizing a canonicalized text changes nothing.
C8_Idempotent == Len(results) = 2 => results[2] = results[1]

\* A text with a time, a month and a weekday, canonicalized twice
C8_Witness ==
  /\ Len(results) = 2
  /\ \E k \in 1..Len(Runs(text)) : TimeAt(SubSeq(Runs(text), k, Len(Runs(text))))
  /\ \E k \in 1..Len(Runs(text)) : IsMonthRun(Runs(text)[k])
  /\ results[1] # <<>>

\* C9: the title of the candidate of line i is line i, or line i, a space and
\* line i+1 when line i has six characters or fewer and is not the last line;
\* it is never empty.
C9_Title ==
  \A e \in Events :
    LET line == lines[e.origin + 1]
    IN /\ e.name # <<>>
       /\ e.name = IF Len(line) <= 6 /\ e.origin + 2 <= Len(lines)
                   THEN line \o <<" ">> \o lines[e.origin + 2]
                   ELSE line

\* A run with a six-character time line followed by a date heading, and with a
\* six-character time line as the last line
C9_Witness ==
  /\ pc = "done"
  /\ \E e \in Events :
       /\ Len(lines[e.origin + 1]) = 6
       /\ e.origin + 2 <= Len(lines)
       /\ parse_date_from_line(lines[e.origin + 2], year_guess(now_year)).kind = "datetime"
  /\ \E e \in Events :
       /\ Len(lines[e.origin + 1]) = 6
       /\ e.origin + 1 = Len(lines)

\* C10: no two events of the result have the same identifier: they differ in
\* the pair (start ISO timestamp, canonicalized title) it is computed from.
C10_DistinctIdentifiers ==
  pc = "done" =>
    \A m, n \in Indices(final_events) :
      m # n =>
        << IsoFormat(final_events[m].begin),
           canonicalize_activity_text(final_events[m].name) >>
          # << IsoFormat(final_events[n].begin),
               canonicalize_activity_text(final_events[n].name) >>

====
